---- MODULE Spec2Model ----
(***************************************************************************)
(* Streaming speaker diarization pipeline (diart, pipelines.py).           *)
(*                                                                         *)
(* Time is counted in integer ticks.  One audio sample per tick, one       *)
(* segmentation frame per tick.  A configuration, an audio recording and   *)
(* up to two diarization sessions (calls of from_source / from_file on the *)
(* same OnlineSpeakerDiarization object) make up the state.                *)
(***************************************************************************)
EXTENDS Integers, Naturals, Sequences, FiniteSets, TLC

\* ---------------------------------------------------------------- bounds
MaxStep == 2
MaxDur == 3
MaxAudio == 5
MaxSpk == 2
ChunkTicks == 2
MaxBatch == 2
MaxClusterLen == 3
NumVoices == 3
\* ------------------------------------------------- defaults of the code
\* tau_active = 0.6, rho_update = 0.3, delta_new = 1 (in tenths)
TauActive == 6
RhoUpdate == 3
DeltaNew == 10
\* number of local speaker slots of the segmentation model
NumLocal == 2

None == 0 - 1
Sessions == {1, 2}

Min(a, b) == IF a <= b THEN a ELSE b
Max(a, b) == IF a >= b THEN a ELSE b
Last(q) == q[Len(q)]

\* ------------------------------------------------------- embedding space
\* Voice vectors of the true speakers, all of Euclidean norm 5.
Voice(spk) ==
  CASE spk = 1 -> <<5, 0>>
    [] spk = 2 -> <<0, 5>>
    [] spk = 3 -> <<0 - 5, 0>>
    [] spk = 4 -> <<3, 4>>
    [] spk = 5 -> <<0 - 3, 4>>
    [] OTHER -> <<0, 0>>
Dot(a, b) == a[1] * b[1] + a[2] * b[2]
VAdd(a, b) == <<a[1] + b[1], a[2] + b[2]>>
VScale(k, a) == <<k * a[1], k * a[2]>>
ISqrt(n) == CHOOSE r \in 0..n : r * r <= n /\ (r + 1) * (r + 1) > n

\* ------------------------------------------------------ audio and windows
\* A tick of audio: <<speaker, level>>; speaker 0 is silence, the level is the
\* activation (in tenths) the segmentation model will report for that tick.
Silence == <<0, 0>>

\* The regular window of `duration` ticks that starts at tick `start`.
WindowAt(samples, start, duration) ==
  [start |-> start, data |-> SubSeq(samples, start + 1, start + duration)]

\* Number of complete windows of `duration` ticks, `step` apart, in d ticks.
NumWindows(d, duration, step) ==
  IF d < duration THEN 0 ELSE ((d - duration) \div step) + 1

\* Speakers of a window in order of first appearance, at most NumLocal of them,
\* padded with 0: the local slots of the window.
RECURSIVE SlotsFrom(_, _, _)
SlotsFrom(data, f, acc) ==
  IF f > Len(data) \/ Len(acc) = NumLocal THEN acc
  ELSE LET spk == data[f][1]
       IN IF spk = 0 \/ \E j \in 1..Len(acc) : acc[j] = spk
          THEN SlotsFrom(data, f + 1, acc)
          ELSE SlotsFrom(data, f + 1, Append(acc, spk))
LocalSlots(data) ==
  LET found == SlotsFrom(data, 1, <<>>)
  IN [j \in 1..NumLocal |-> IF j <= Len(found) THEN found[j] ELSE 0]

\* segment(window): frames x local slots activation matrix, same start time.
Segmentation(window) ==
  LET slots == LocalSlots(window.data)
  IN [start |-> window.start,
      data |-> [f \in 1..Len(window.data) |->
                 [j \in 1..NumLocal |->
                    IF slots[j] # 0 /\ window.data[f][1] = slots[j]
                    THEN window.data[f][2] ELSE 0]]]

\* OverlappedSpeechPenalty(segmentation): per-frame, per-slot weights.
OverlappedSpeechPenalty(seg) ==
  [start |-> seg.start,
   w |-> [f \in 1..Len(seg.data) |->
            [j \in 1..NumLocal |-> IF seg.data[f][j] > 0 THEN 1 ELSE 0]]]

RECURSIVE SumTo(_, _)
SumTo(q, n) == IF n = 0 THEN 0 ELSE q[n] + SumTo(q, n - 1)

\* embed(window, weights): one raw (not unit-norm) vector per local slot; the
\* record keeps the start times of the window and of the weights it was given.
Embedding(window, weights) ==
  LET slots == LocalSlots(window.data)
      mass(j) == SumTo([f \in 1..Len(window.data) |->
                         IF f <= Len(weights.w) THEN weights.w[f][j] ELSE 0],
                       Len(window.data))
  IN [start |-> window.start,
      wstart |-> weights.start,
      vecs |-> [j \in 1..NumLocal |-> VScale(mass(j), Voice(slots[j]))]]

\* EmbeddingNormalization(norm=1): rescale every vector to the unit norm (5).
UnitNorm == 5
NormalizeVec(v) ==
  LET n == ISqrt(Dot(v, v))
  IN IF n = 0 THEN <<0, 0>> ELSE <<(v[1] * UnitNorm) \div n, (v[2] * UnitNorm) \div n>>
EmbeddingNormalization(emb) ==
  [emb EXCEPT !.vecs = [j \in 1..NumLocal |-> NormalizeVec(emb.vecs[j])]]

\* ------------------------------------------------------- PipelineConfig
\* The assertion of PipelineConfig.__init__.
ConfigValid_NoUpper(step, latency, duration) == step <= latency
ConfigValid(step, latency, duration) == step <= latency /\ latency <= duration

NoConfig ==
  [duration |-> None, step |-> None, latency |-> None, tau_active |-> None,
   rho_update |-> None, delta_new |-> None, max_speakers |-> None]

\* PipelineConfig.__init__: the defaults, then the assertion; the result is the
\* configuration, or NoConfig when the assertion fails.
PipelineConfig(duration, step, latency, max_speakers, model_duration) ==
  LET dur == IF duration = None THEN model_duration ELSE duration
      lat == IF latency = None THEN step ELSE latency
  IN IF ConfigValid(step, lat, dur)
     THEN [duration |-> dur, step |-> step, latency |-> lat, tau_active |-> TauActive,
           rho_update |-> RhoUpdate, delta_new |-> DeltaNew, max_speakers |-> max_speakers]
     ELSE NoConfig

\* PipelineConfig.get_end_time
GetEndTime(source_duration, step) ==
  IF source_duration # None THEN source_duration - (source_duration % step) ELSE None

\* end_time of from_file
FileEndTime(file_duration, step) == file_duration % step

\* ------------------------------------------- OnlineSpeakerClustering
\* Cosine similarity tests on integer vectors (thresholds in tenths).
\* cos(a, c) >= t/10, for t >= 0.
SimAtLeast(a, c, t) ==
  LET x == Dot(a, c)
  IN x >= 0 /\ x * x * 100 >= t * t * Dot(a, a) * Dot(c, c)
\* cos(a, c) <= t/10, for t >= 0.
SimAtMost(a, c, t) ==
  LET x == Dot(a, c)
  IN x <= 0 \/ x * x * 100 <= t * t * Dot(a, a) * Dot(c, c)
\* cos(a, c1) >= cos(a, c2)
CloserOrEqual(a, c1, c2) ==
  LET x1 == Dot(a, c1)
      x2 == Dot(a, c2)
      l == x1 * x1 * Dot(c2, c2)
      r == x2 * x2 * Dot(c1, c1)
  IN IF x1 >= 0 /\ x2 < 0 THEN TRUE
     ELSE IF x1 < 0 /\ x2 >= 0 THEN FALSE
     ELSE IF x1 >= 0 THEN l >= r ELSE l <= r

\* Index of the centroid nearest to a (lowest index among the nearest).
Nearest(a, centers) ==
  CHOOSE g \in 1..Len(centers) :
    /\ \A h \in 1..Len(centers) : CloserOrEqual(a, centers[g], centers[h])
    /\ \A h \in 1..(g - 1) : ~CloserOrEqual(a, centers[h], centers[g])

\* Activity score of local slot j: the maximum activation over the frames.
RECURSIVE MaxTo(_, _)
MaxTo(q, n) == IF n = 0 THEN 0 ELSE Max(q[n], MaxTo(q, n - 1))
ActivityScore(seg, j) ==
  MaxTo([f \in 1..Len(seg.data) |-> seg.data[f][j]], Len(seg.data))

\* The clustering object as constructed: thresholds and the empty registry.
OnlineSpeakerClustering(tau_active, rho_update, delta_new, max_speakers) ==
  [tau_active |-> tau_active, rho_update |-> rho_update, delta_new |-> delta_new,
   max_speakers |-> max_speakers, centers |-> <<>>, calls |-> 0]

\* One local slot: st = [centers, assign]; returns st with slot j decided.
ClusterSlot(cl, st, seg, emb, j) ==
  LET e == emb.vecs[j]
      cs == st.centers
  IN IF ActivityScore(seg, j) < cl.tau_active
     THEN [st EXCEPT !.assign = Append(@, 0)]
     ELSE IF Len(cs) > 0 /\ SimAtLeast(e, cs[Nearest(e, cs)], cl.rho_update)
     THEN LET g == Nearest(e, cs)
          IN [centers |-> [cs EXCEPT ![g] = VAdd(@, e)], assign |-> Append(st.assign, g)]
     ELSE IF /\ Len(cs) < cl.max_speakers
             /\ \A h \in 1..Len(cs) : SimAtMost(e, cs[h], 10 - cl.delta_new)
     THEN [centers |-> Append(cs, e), assign |-> Append(st.assign, Len(cs) + 1)]
     ELSE IF Len(cs) > 0
     THEN [st EXCEPT !.assign = Append(@, Nearest(e, cs))]
     ELSE [st EXCEPT !.assign = Append(@, 0)]

RECURSIVE ClusterSlots(_, _, _, _, _)
ClusterSlots(cl, st, seg, emb, j) ==
  IF j > NumLocal THEN st
  ELSE ClusterSlots(cl, ClusterSlot(cl, st, seg, emb, j), seg, emb, j + 1)

\* clustering(segmentation, embeddings): the updated clustering object and the
\* segmentation relabeled with global speakers (columns merged by maximum).
ClusteringCall(cl, seg, emb) ==
  LET st == ClusterSlots(cl, [centers |-> cl.centers, assign |-> <<>>], seg, emb, 1)
      col(f, g) == MaxTo([j \in 1..NumLocal |->
                           IF st.assign[j] = g THEN seg.data[f][j] ELSE 0], NumLocal)
  IN [cl |-> [cl EXCEPT !.centers = st.centers, !.calls = @ + 1],
      out |-> [start |-> seg.start,
               estart |-> emb.start,
               assign |-> st.assign,
               data |-> [f \in 1..Len(seg.data) |->
                          [g \in 1..cl.max_speakers |-> col(f, g)]]]]

\* ------------------------------------- buffer_slide and DelayedAggregation
\* End time of a window (SlidingWindowFeature.extent.end).
ExtentEnd(w) == w.start + Len(w.data)

\* ceil(latency / step)
NumOverlappingWindows(step, latency) == (latency + step - 1) \div step

DelayedAggregation(step, latency, strategy, stream_end) ==
  [step |-> step, latency |-> latency, strategy |-> strategy, stream_end |-> stream_end,
   num_overlapping_windows |-> NumOverlappingWindows(step, latency)]

\* buffer_slide(n): the buffer after a new element; it is emitted when it holds n.
BufferSlide(buf, x, n) ==
  LET nb == Append(buf, x) IN IF Len(nb) > n THEN Tail(nb) ELSE nb

\* Taper of the weighted average: highest at the centre of a window.
Taper(f, len) == Min(f, len + 1 - f)

\* Value of window w at tick t (0-based time), or the default outside of it.
Covers(w, t) == w.start <= t /\ t < ExtentEnd(w)
FrameAt(w, t) == w.data[t - w.start + 1]

\* aggregation(buffers) for the region [a, b): "first" copies the earliest
\* buffered window, "hamming" is the taper-weighted average of the windows
\* that cover each tick, one column per global speaker.
Aggregate(agg, buffers, a, b, width) ==
  LET idx == 1..Len(buffers)
      cov(t) == {i \in idx : Covers(buffers[i], t)}
      wsum(t) == SumTo([i \in idx |->
                          IF i \in cov(t)
                          THEN Taper(t - buffers[i].start + 1, Len(buffers[i].data)) ELSE 0],
                       Len(buffers))
      vsum(t, sp) == SumTo([i \in idx |->
                              IF i \in cov(t)
                              THEN Taper(t - buffers[i].start + 1, Len(buffers[i].data))
                                   * FrameAt(buffers[i], t)[sp]
                              ELSE 0],
                           Len(buffers))
  IN [start |-> a, end |-> b,
      wins |-> [i \in idx |-> buffers[i].start],
      data |-> [k \in 1..(b - a) |->
                 IF agg.strategy = "first"
                 THEN IF Covers(buffers[1], a + k - 1)
                      THEN FrameAt(buffers[1], a + k - 1) ELSE Silence
                 ELSE [sp \in 1..width |->
                         IF wsum(a + k - 1) = 0 THEN 0
                         ELSE vsum(a + k - 1, sp) \div wsum(a + k - 1)]]]

\* Region of the output of a full buffer: one step, `latency` behind the end of
\* the newest window.
RegionStart(agg, buffers) == ExtentEnd(Last(buffers)) - agg.latency

\* Outputs of the end-of-stream flush: when the stream end is known, one output
\* per remaining region up to the stream end, from the windows still buffered.
RECURSIVE FlushFrom(_, _, _, _)
FlushFrom(agg, buf, next, width) ==
  IF agg.stream_end = None \/ next >= agg.stream_end \/ Len(buf) = 0 THEN <<>>
  ELSE <<Aggregate(agg, buf, next, Min(next + agg.step, agg.stream_end), width)>>
       \o FlushFrom(agg, IF Len(buf) > 1 THEN Tail(buf) ELSE buf, next + agg.step, width)
Flush(agg, buf, width) ==
  IF Len(buf) = 0 THEN <<>>
  ELSE IF Len(buf) = agg.num_overlapping_windows
  THEN FlushFrom(agg, IF Len(buf) > 1 THEN Tail(buf) ELSE buf,
                 RegionStart(agg, buf) + agg.step, width)
  ELSE FlushFrom(agg, buf, RegionStart(agg, buf), width)

\* The intervals [a, b) of consecutive ticks of `on` within [t, end), in order.
RECURSIVE Runs(_, _, _)
Runs(on, t, end) ==
  IF t >= end THEN <<>>
  ELSE IF t \notin on THEN Runs(on, t + 1, end)
  ELSE LET b == CHOOSE b \in (t + 1)..end :
                  /\ \A u \in t..(b - 1) : u \in on
                  /\ (b = end \/ b \notin on)
       IN <<<<t, b>>>> \o Runs(on, b, end)

\* Binarize(uri, tau_active): per global speaker, the ticks at or above tau
\* and the intervals they coalesce into.
Binarize(tau_active, window, width) ==
  LET on(sp) == {t \in window.start..(window.end - 1) :
                   window.data[t - window.start + 1][sp] >= tau_active}
  IN [start |-> window.start, end |-> window.end, wins |-> window.wins,
      active |-> [sp \in 1..width |-> on(sp)],
      intervals |-> [sp \in 1..width |-> Runs(on(sp), window.start, window.end)]]

\* ------------------------------------------------------------- rx.zip
\* State of one zip: a queue and a completion flag per source, whether the
\* zip has completed, and the start times of the tuples emitted so far.
NewZip == [q |-> <<<<>>, <<>>>>, done |-> <<FALSE, FALSE>>, closed |-> FALSE, log |-> <<>>]

\* on_next of source i.  A tuple is emitted once every queue holds an element;
\* the zip completes when an element cannot be paired and all other sources
\* have completed.
ZipOnNext_Latest(z, i, x) ==
  IF z.closed THEN [z |-> z, emit |-> <<>>, completed |-> FALSE]
  ELSE LET q == [z.q EXCEPT ![i] = <<x>>]
       IN IF \A j \in 1..2 : Len(q[j]) > 0
          THEN [z |-> [z EXCEPT !.q = q,
                                !.log = Append(@, <<q[1][1].start, q[2][1].start>>)],
                emit |-> <<<<q[1][1], q[2][1]>>>>,
                completed |-> FALSE]
          ELSE [z |-> [z EXCEPT !.q = q], emit |-> <<>>, completed |-> FALSE]
ZipOnNext(z, i, x) ==
  IF z.closed THEN [z |-> z, emit |-> <<>>, completed |-> FALSE]
  ELSE LET q == [z.q EXCEPT ![i] = Append(@, x)]
       IN IF \A j \in 1..2 : Len(q[j]) > 0
          THEN [z |-> [z EXCEPT !.q = [j \in 1..2 |-> Tail(q[j])],
                                !.log = Append(@, <<Head(q[1]).start, Head(q[2]).start>>)],
                emit |-> <<<<Head(q[1]), Head(q[2])>>>>,
                completed |-> FALSE]
          ELSE IF \A j \in (1..2) \ {i} : z.done[j]
          THEN [z |-> [z EXCEPT !.q = q, !.closed = TRUE], emit |-> <<>>, completed |-> TRUE]
          ELSE [z |-> [z EXCEPT !.q = q], emit |-> <<>>, completed |-> FALSE]

\* on_completed of source i: the zip completes when all sources have.
ZipOnCompleted(z, i) ==
  IF z.closed THEN [z |-> z, completed |-> FALSE]
  ELSE LET d == [z.done EXCEPT ![i] = TRUE]
       IN IF \A j \in 1..2 : d[j]
          THEN [z |-> [z EXCEPT !.done = d, !.closed = TRUE], completed |-> TRUE]
          ELSE [z |-> [z EXCEPT !.done = d], completed |-> FALSE]

\* -------------------------------------------------- from_model_streams
\* The stages of the pipeline pass each other on_next and on_completed calls.
\* A call is a message [to, kind, slot, x]; a stage handles one call and makes
\* the calls that result from it, which are handled before anything else
\* (the calls are synchronous).
Msg(to, kind, slot, x) == [to |-> to, kind |-> kind, slot |-> slot, x |-> x]
Done(to, slot) == Msg(to, "done", slot, 0)
Reply(c, msgs) == [c |-> c, msgs |-> msgs]

\* The second component of an output when no audio chunk stream is given.
NoWaveform == [start |-> None, end |-> None, wins |-> <<>>, data |-> <<>>]
WithNone_Ann(ann) == <<ann, [NoWaveform EXCEPT !.start = ann.start, !.end = ann.end]>>
WithNone(ann) == <<ann, NoWaveform>>

\* Size of the sliding buffers.
BufferSize_One(agg) == 1
BufferSize_Plus(agg) == agg.num_overlapping_windows + 1
BufferSize(agg) == agg.num_overlapping_windows

\* The clustering object of a call: a new one, added to the heap of objects.
ClusteringRef_Shared(hp) == 1
ClusteringRef(hp) == Len(hp) + 1

\* A zip stage handling a call of source m.slot.
ZipStage(z, m) ==
  IF m.kind = "next" THEN ZipOnNext(z, m.slot, m.x)
  ELSE LET r == ZipOnCompleted(z, m.slot)
       IN [z |-> r.z, emit |-> <<>>, completed |-> r.completed]
ZipCalls(r, to, slot) ==
  (IF r.emit # <<>> THEN <<Msg(to, "next", slot, r.emit[1])>> ELSE <<>>)
  \o (IF r.completed THEN <<Done(to, slot)>> ELSE <<>>)

\* rx.zip(segmentation_stream, embedding_stream)
HandleZipA(p, c, m) ==
  LET r == ZipStage(c.zipA, m)
  IN Reply([c EXCEPT !.zipA = r.z], ZipCalls(r, "cluster", 0))

\* starmap(clustering)
HandleCluster(p, c, m) ==
  IF m.kind = "done" THEN Reply(c, <<Done("agg", 0)>>)
  ELSE LET cc == ClusteringCall(c.heap[p.clid], m.x[1], m.x[2])
       IN Reply([c EXCEPT !.heap[p.clid] = cc.cl, !.clustered = Append(@, cc.out.assign)],
                <<Msg("agg", "next", 0, cc.out)>>)

\* Output of `pipeline`: paired with a waveform, or with None.
PipelineOut(p, ann) ==
  IF p.wave THEN Msg("zipC", "next", 1, ann) ELSE Msg("final", "next", 0, WithNone(ann))
PipelineDone(p) == IF p.wave THEN Done("zipC", 1) ELSE Done("final", 0)

\* buffer_slide, map(aggregation), map(binarize)
HandleAgg(p, c, m) ==
  IF m.kind = "done"
  THEN LET ws == Flush(p.agg, c.bufA, p.max_speakers)
       IN Reply([c EXCEPT !.flushed = TRUE],
                [i \in 1..Len(ws) |->
                      PipelineOut(p, Binarize(p.tau_active, ws[i], p.max_speakers))]
                   \o <<PipelineDone(p)>>)
  ELSE LET buf == BufferSlide(c.bufA, m.x, BufferSize(p.agg))
           a == RegionStart(p.agg, buf)
       IN Reply([c EXCEPT !.bufA = buf, !.aggSeen = @ + 1],
                IF Len(buf) = BufferSize(p.agg)
                THEN <<PipelineOut(p, Binarize(p.tau_active,
                                               Aggregate(p.agg, buf, a, a + p.agg.step,
                                                         p.max_speakers),
                                               p.max_speakers))>>
                ELSE <<>>)

\* audio_chunk_stream: buffer_slide, map(window_selector)
HandleWav(p, c, m) ==
  IF m.kind = "done"
  THEN LET ws == Flush(p.sel, c.bufW, 0)
       IN Reply([c EXCEPT !.wflushed = TRUE],
                [i \in 1..Len(ws) |-> Msg("zipC", "next", 2, ws[i])] \o <<Done("zipC", 2)>>)
  ELSE LET buf == BufferSlide(c.bufW, m.x, BufferSize(p.sel))
           a == RegionStart(p.sel, buf)
       IN Reply([c EXCEPT !.bufW = buf, !.wavSeen = @ + 1],
                IF Len(buf) = BufferSize(p.sel)
                THEN <<Msg("zipC", "next", 2, Aggregate(p.sel, buf, a, a + p.sel.step, 0))>>
                ELSE <<>>)

\* rx.zip(pipeline, waveform_stream)
HandleZipC(p, c, m) ==
  LET r == ZipStage(c.zipC, m)
  IN Reply([c EXCEPT !.zipC = r.z], ZipCalls(r, "final", 0))

\* The observer of the returned observable.
HandleFinal(p, c, m) ==
  IF m.kind = "done" THEN Reply([c EXCEPT !.completed = TRUE], <<>>)
  ELSE Reply([c EXCEPT !.out = Append(@, m.x)], <<>>)

\* ---------------------------------------------------- from_source stages
ModelRate == 16
SampleRateOk_Any(source_rate, config_rate) == TRUE
SampleRateOk(source_rate, config_rate) == source_rate = config_rate

\* regularize_stream(duration, step, sample_rate): r = [acc, next] holds the
\* samples received and the index of the next window; every window that has
\* become complete is emitted.
RegularizeOnNext(r, chunk, duration, step) ==
  LET acc == r.acc \o chunk
      upto == NumWindows(Len(acc), duration, step)
      cnt == IF upto > r.next THEN upto - r.next ELSE 0
  IN [r |-> [acc |-> acc, next |-> r.next + cnt],
      windows |-> [k \in 1..cnt |-> WindowAt(acc, (r.next + k - 1) * step, duration)]]

\* The subscriptions to regular_stream, in the order they are made:
\*  1 segmentation_stream of the clustering zip, 2 regular_stream of the
\*  embedding zip, 3 segmentation_stream of the embedding zip, 4 chunk_stream.
BranchNext_Skew(sub, w) ==
  CASE sub = 1 -> Msg("zipA", "next", 1, Segmentation(w))
    [] sub = 2 -> Msg("zipB", "next", 1, w)
    [] sub = 3 -> Msg("zipB", "next", 1, Segmentation(w))
    [] OTHER -> Msg("wav", "next", 0, w)
BranchNext(sub, w) ==
  CASE sub = 1 -> Msg("zipA", "next", 1, Segmentation(w))
    [] sub = 2 -> Msg("zipB", "next", 1, w)
    [] sub = 3 -> Msg("zipB", "next", 2, Segmentation(w))
    [] OTHER -> Msg("wav", "next", 0, w)
BranchDone(sub) ==
  CASE sub = 1 -> Done("zipA", 1)
    [] sub = 2 -> Done("zipB", 1)
    [] sub = 3 -> Done("zipB", 2)
    [] OTHER -> Done("wav", 0)

\* The regularizer of subscription m.slot.
HandleReg(p, c, m) ==
  IF m.kind = "done" THEN Reply(c, <<BranchDone(m.slot)>>)
  ELSE LET rr == RegularizeOnNext(c.reg[m.slot], m.x, p.duration, p.step)
       IN Reply([c EXCEPT !.reg[m.slot] = rr.r],
                [k \in 1..Len(rr.windows) |-> BranchNext(m.slot, rr.windows[k])])

\* rx.zip(regular_stream, segmentation_stream), the overlapped speech penalty,
\* the embedding model and the normalization.
HandleZipB_Latest(p, c, m) ==
  LET r == IF m.kind = "next" THEN ZipOnNext_Latest(c.zipB, m.slot, m.x)
           ELSE ZipStage(c.zipB, m)
      emb == EmbeddingNormalization(
               Embedding(r.emit[1][1], OverlappedSpeechPenalty(r.emit[1][2])))
  IN Reply([c EXCEPT !.zipB = r.z],
           (IF r.emit # <<>> THEN <<Msg("zipA", "next", 2, emb)>> ELSE <<>>)
           \o (IF r.completed THEN <<Done("zipA", 2)>> ELSE <<>>))
HandleZipB(p, c, m) ==
  LET r == ZipStage(c.zipB, m)
      emb == EmbeddingNormalization(
               Embedding(r.emit[1][1], OverlappedSpeechPenalty(r.emit[1][2])))
  IN Reply([c EXCEPT !.zipB = r.z],
           (IF r.emit # <<>> THEN <<Msg("zipA", "next", 2, emb)>> ELSE <<>>)
           \o (IF r.completed THEN <<Done("zipA", 2)>> ELSE <<>>))

\* What source.stream calls on subscription `sub`.
SourceNext_Always(regular, sub, x) == Msg("reg", "next", sub, x)
SourceNext(regular, sub, x) ==
  IF regular THEN BranchNext(sub, x) ELSE Msg("reg", "next", sub, x)
SourceDone(regular, sub) ==
  IF regular THEN BranchDone(sub) ELSE Done("reg", sub)

\* ------------------------------------------------------ from_file stages
\* ChunkLoader.get_chunks: the data of the regular windows of the file.
GetChunks(samples, duration, step) ==
  [i \in 1..NumWindows(Len(samples), duration, step) |->
     WindowAt(samples, (i - 1) * step, duration).data]

\* The batch loop: segmentation and normalized embeddings of chunks i.., stacked.
RECURSIVE Precompute(_, _, _, _, _)
Precompute(chunks, batch_size, step, i, acc) ==
  IF i >= Len(chunks) THEN acc
  ELSE LET i_end == IF i + batch_size > Len(chunks) THEN Len(chunks) ELSE i + batch_size
           win(k) == [start |-> (i + k - 1) * step, data |-> chunks[i + k]]
           seg == [k \in 1..(i_end - i) |-> Segmentation(win(k))]
           emb == [k \in 1..(i_end - i) |->
                     EmbeddingNormalization(
                       Embedding(win(k), OverlappedSpeechPenalty(seg[k])))]
       IN Precompute(chunks, batch_size, step, i + batch_size,
                     [segmentation |-> acc.segmentation \o [k \in 1..(i_end - i) |-> seg[k].data],
                      embeddings |-> acc.embeddings \o emb])

\* The three rx.range streams: 1 segmentation, 2 embeddings, 3 chunks.
FileNext(pre, step, sub, i) ==
  CASE sub = 1 -> Msg("zipA", "next", 1, [start |-> i * step, data |-> pre.segmentation[i + 1]])
    [] sub = 2 -> Msg("zipA", "next", 2, pre.embeddings[i + 1])
    [] OTHER -> Msg("wav", "next", 0, [start |-> i * step, data |-> pre.chunks[i + 1]])
FileDone(sub) ==
  CASE sub = 1 -> Done("zipA", 1)
    [] sub = 2 -> Done("zipA", 2)
    [] OTHER -> Done("wav", 0)

\* A stage handling the call m.
HandleCall(p, c, m) ==
  CASE m.to = "reg" -> HandleReg(p, c, m)
    [] m.to = "zipA" -> HandleZipA(p, c, m)
    [] m.to = "zipB" -> HandleZipB(p, c, m)
    [] m.to = "cluster" -> HandleCluster(p, c, m)
    [] m.to = "agg" -> HandleAgg(p, c, m)
    [] m.to = "wav" -> HandleWav(p, c, m)
    [] m.to = "zipC" -> HandleZipC(p, c, m)
    [] OTHER -> HandleFinal(p, c, m)

\* ------------------------------------------------------------------ state
VARIABLES
  args,      \* arguments given to PipelineConfig
  cfgState,  \* "none", "ok" or "failed" (the assertion failed)
  config,    \* the PipelineConfig object, NoConfig while there is none
  audio,     \* the recording: a sequence of ticks
  plan,      \* what each session is going to call, and on which source
  sess,      \* the sessions
  heap       \* the clustering objects created so far
vars == <<args, cfgState, config, audio, plan, sess, heap>>

ModelDuration == 2

NoAgg == DelayedAggregation(1, 1, "none", None)
NoPre == [segmentation |-> <<>>, embeddings |-> <<>>, chunks |-> <<>>]
NewCtx ==
  [zipA |-> NewZip, zipB |-> NewZip, zipC |-> NewZip, bufA |-> <<>>, bufW |-> <<>>,
   out |-> <<>>, completed |-> FALSE, clustered |-> <<>>, todo |-> <<>>,
   aggSeen |-> 0, wavSeen |-> 0, flushed |-> FALSE, wflushed |-> FALSE,
   reg |-> [i \in 1..4 |-> [acc |-> <<>>, next |-> 0]], heap |-> <<>>]
IdleSession ==
  [pc |-> "idle", end_time |-> None, clid |-> 0, agg |-> NoAgg, sel |-> NoAgg,
   pre |-> NoPre, evt |-> 0, sub |-> 0, c |-> NewCtx]

Absent ==
  [mode |-> "none", wave |-> FALSE, regular |-> TRUE, known |-> TRUE,
   rate |-> ModelRate, batch |-> 0]
SourceOptions ==
  [mode : {"source"}, wave : BOOLEAN, regular : BOOLEAN, known : BOOLEAN,
   rate : {ModelRate, ModelRate \div 2}, batch : {0}]
FileOptions ==
  [mode : {"file"}, wave : BOOLEAN, regular : {TRUE}, known : {TRUE},
   rate : {ModelRate}, batch : 1..MaxBatch]
AllArgs ==
  [duration : {None} \cup 1..MaxDur, step : 1..MaxStep, latency : {None} \cup 1..MaxDur,
   max_speakers : {MaxSpk}, model_duration : {ModelDuration}]

\* Recordings of every length up to MaxAudio: two speakers taking turns.
TurnAudio(d) == [t \in 1..d |-> <<1 + (((t - 1) \div 2) % 2), 10>>]
\* One speaker whose level drops below tau_active on every second tick.
FadeAudio(d) == [t \in 1..d |-> <<1, IF t % 2 = 1 THEN 10 ELSE 5>>]

TypeOK ==
  /\ cfgState \in {"none", "ok", "failed"}
  /\ \A s \in Sessions : sess[s].pc \in {"idle", "failed", "built", "running", "done"}

\* Recordings of exactly n ticks over the given speakers, all fully active.
Voices(n, spks) == [1..n -> {<<v, 10>> : v \in spks}]

Start ==
  /\ cfgState = "none"
  /\ config = NoConfig
  /\ sess = [s \in Sessions |-> IdleSession]
  /\ heap = <<>>

\* One session, every configuration and every way of calling the pipeline.
Init ==
  /\ args \in AllArgs
  /\ audio \in {TurnAudio(d) : d \in 0..MaxAudio} \cup {FadeAudio(MaxAudio)}
  /\ plan \in {[s \in Sessions |-> IF s = 1 THEN o ELSE Absent] :
                 o \in SourceOptions \cup FileOptions}
  /\ Start

\* Two sessions on the same recording and configuration, one after the other.
TwoOptions ==
  {o \in SourceOptions \cup FileOptions :
     o.rate = ModelRate /\ o.known /\ o.regular /\ o.batch <= 1}
InitTwo ==
  /\ args \in {a \in AllArgs : a.step = 1 /\ a.duration \in 1..2 /\ a.latency \in 1..2}
  /\ audio \in Voices(MaxClusterLen, {3, 4, 5}) \cup {TurnAudio(MaxAudio)}
  /\ plan \in [Sessions -> TwoOptions]
  /\ Start

\* One session, recordings of every content.
InitCluster ==
  /\ args \in [duration : 1..2, step : {1}, latency : {None},
               max_speakers : 1..MaxSpk, model_duration : {ModelDuration}]
  /\ audio \in UNION {[1..n -> {Silence} \cup {<<v, 10>> : v \in 1..NumVoices}] :
                        n \in 0..MaxClusterLen}
  /\ plan \in {[s \in Sessions |-> IF s = 1 THEN o ELSE Absent] :
                 o \in {x \in TwoOptions : ~x.wave}}
  /\ Start


\* ---------------------------------------------------------------- actions
\* PipelineConfig(...) and OnlineSpeakerDiarization(config)
Construct ==
  /\ cfgState = "none"
  /\ config' = PipelineConfig(args.duration, args.step, args.latency,
                              args.max_speakers, args.model_duration)
  /\ cfgState' = IF config' = NoConfig THEN "failed" ELSE "ok"
  /\ UNCHANGED <<args, audio, plan, sess, heap>>

\* Sessions run one after the other.
MayRun(s) == \A t \in Sessions : t < s => sess[t].pc \in {"done", "failed"}

\* from_model_streams: the clustering object, the aggregation, the selector.
FromModelStreams_SelStep(sr, end_time, wave, hp) ==
  [sr EXCEPT !.pc = "built",
             !.end_time = end_time,
             !.clid = ClusteringRef(hp),
             !.agg = DelayedAggregation(config.step, config.latency, "hamming", end_time),
             !.sel = IF wave
                     THEN DelayedAggregation(config.step, config.step, "first", end_time)
                     ELSE NoAgg]
FromModelStreams(sr, end_time, wave, hp) ==
  [sr EXCEPT !.pc = "built",
             !.end_time = end_time,
             !.clid = ClusteringRef(hp),
             !.agg = DelayedAggregation(config.step, config.latency, "hamming", end_time),
             !.sel = IF wave
                     THEN DelayedAggregation(config.step, config.latency, "first", end_time)
                     ELSE NoAgg]
\* The clustering module of from_model_streams.
ClusteringOf_WrongMax(cfg) ==
  OnlineSpeakerClustering(cfg.tau_active, cfg.rho_update, cfg.delta_new, cfg.max_speakers + 1)
ClusteringOf_SwapRhoDelta(cfg) ==
  OnlineSpeakerClustering(cfg.tau_active, cfg.delta_new, cfg.rho_update, cfg.max_speakers)
ClusteringOf_TauAsDelta(cfg) ==
  OnlineSpeakerClustering(cfg.tau_active, cfg.rho_update, cfg.tau_active, cfg.max_speakers)
ClusteringOf_DefaultMax(cfg) ==
  OnlineSpeakerClustering(cfg.tau_active, cfg.rho_update, cfg.delta_new, 20)
ClusteringOf(cfg) ==
  OnlineSpeakerClustering(cfg.tau_active, cfg.rho_update, cfg.delta_new, cfg.max_speakers)
HeapAfter(hp, clid) ==
  IF clid > Len(hp) THEN Append(hp, ClusteringOf(config)) ELSE hp

\* from_source(source, output_waveform)
CallFromSource(s) ==
  /\ cfgState = "ok"
  /\ sess[s].pc = "idle" /\ plan[s].mode = "source"
  /\ LET source_duration == IF plan[s].known THEN Len(audio) ELSE None
         built == FromModelStreams(sess[s], GetEndTime(source_duration, config.step),
                                   plan[s].wave, heap)
     IN IF SampleRateOk(plan[s].rate, ModelRate)
        THEN /\ sess' = [sess EXCEPT ![s] = built]
             /\ heap' = HeapAfter(heap, built.clid)
        ELSE /\ sess' = [sess EXCEPT ![s].pc = "failed"]
             /\ heap' = heap
  /\ UNCHANGED <<args, cfgState, config, audio, plan>>

\* from_file(file, output_waveform, batch_size)
CallFromFile(s) ==
  /\ cfgState = "ok"
  /\ sess[s].pc = "idle" /\ plan[s].mode = "file"
  /\ LET chunks == GetChunks(audio, config.duration, config.step)
         pre == Precompute(chunks, plan[s].batch, config.step, 0,
                           [segmentation |-> <<>>, embeddings |-> <<>>])
         built == FromModelStreams(sess[s], FileEndTime(Len(audio), config.step),
                                   plan[s].wave, heap)
     IN /\ sess' = [sess EXCEPT ![s] =
                      [built EXCEPT !.pre = [segmentation |-> pre.segmentation,
                                             embeddings |-> pre.embeddings,
                                             chunks |-> chunks]]]
        /\ heap' = HeapAfter(heap, built.clid)
  /\ UNCHANGED <<args, cfgState, config, audio, plan>>

\* The returned observable is subscribed.
Subscribe(s) ==
  /\ sess[s].pc = "built"
  /\ sess' = [sess EXCEPT ![s].pc = "running", ![s].evt = 1, ![s].sub = 1]
  /\ UNCHANGED <<args, cfgState, config, audio, plan, heap>>

Params_RhoBinarize(s) ==
  [wave |-> plan[s].wave, regular |-> plan[s].regular, clid |-> sess[s].clid,
   agg |-> sess[s].agg, sel |-> sess[s].sel, pre |-> sess[s].pre,
   tau_active |-> config.rho_update, max_speakers |-> config.max_speakers,
   duration |-> config.duration, step |-> config.step]
Params(s) ==
  [wave |-> plan[s].wave, regular |-> plan[s].regular, clid |-> sess[s].clid,
   agg |-> sess[s].agg, sel |-> sess[s].sel, pre |-> sess[s].pre,
   tau_active |-> config.tau_active, max_speakers |-> config.max_speakers,
   duration |-> config.duration, step |-> config.step]

\* Number of elements the root stream(s) of session s emit before completing.
NumEvents(s) ==
  IF plan[s].mode = "file" THEN Len(sess[s].pre.chunks)
  ELSE IF plan[s].regular THEN NumWindows(Len(audio), config.duration, config.step)
  ELSE (Len(audio) + ChunkTicks - 1) \div ChunkTicks
NumSubs(s) ==
  (IF plan[s].mode = "file" THEN 2 ELSE 3) + (IF plan[s].wave THEN 1 ELSE 0)
\* Subscription reached by the sub-th delivery of an element.
\* The e-th element of source.stream.
SourceElement(s, e) ==
  IF plan[s].regular THEN WindowAt(audio, (e - 1) * config.step, config.duration)
  ELSE SubSeq(audio, (e - 1) * ChunkTicks + 1, Min(e * ChunkTicks, Len(audio)))

\* source.stream (or an rx.range) makes its next call on its next subscription.
Deliver(s) ==
  /\ sess[s].pc = "running" /\ sess[s].c.todo = <<>>
  /\ LET sr == sess[s]
         ne == NumEvents(s)
         m == IF sr.evt <= ne
              THEN IF plan[s].mode = "file"
                   THEN FileNext(sr.pre, config.step, sr.sub, sr.evt - 1)
                   ELSE SourceNext(plan[s].regular, sr.sub, SourceElement(s, sr.evt))
              ELSE IF plan[s].mode = "file"
                   THEN FileDone(sr.sub)
                   ELSE SourceDone(plan[s].regular, sr.sub)
         last == sr.sub = NumSubs(s)
     IN sess' = [sess EXCEPT ![s] =
                   [sr EXCEPT !.c.todo = <<m>>,
                              !.sub = IF last THEN 1 ELSE @ + 1,
                              !.evt = IF last THEN @ + 1 ELSE @]]
  /\ UNCHANGED <<args, cfgState, config, audio, plan, heap>>

\* The stage called handles the call and calls the stages after it; the
\* session is over when the completion has gone through every subscription.
Handle(s) ==
  /\ sess[s].pc = "running" /\ sess[s].c.todo # <<>>
  /\ LET sr == sess[s]
         r == HandleCall(Params(s), [sr.c EXCEPT !.heap = heap], Head(sr.c.todo))
         todo == r.msgs \o Tail(sr.c.todo)
     IN /\ sess' = [sess EXCEPT ![s] =
                      [sr EXCEPT !.c = [r.c EXCEPT !.heap = <<>>, !.todo = todo],
                                 !.pc = IF todo = <<>> /\ sr.evt > NumEvents(s) + 1
                                        THEN "done" ELSE @]]
        /\ heap' = r.c.heap
  /\ UNCHANGED <<args, cfgState, config, audio, plan>>

\* The calls of a session are made when the sessions before it are over.
FromSource(s) == MayRun(s) /\ CallFromSource(s)
FromFile(s) == MayRun(s) /\ CallFromFile(s)

Next ==
  \/ Construct
  \/ \E s \in Sessions : FromSource(s)
  \/ \E s \in Sessions : FromFile(s)
  \/ \E s \in Sessions : Subscribe(s)
  \/ \E s \in Sessions : Deliver(s)
  \/ \E s \in Sessions : Handle(s)

Spec == Init /\ [][Next]_vars
SpecTwo == InitTwo /\ [][Next]_vars
SpecCluster == InitCluster /\ [][Next]_vars

\* Two sessions of one OnlineSpeakerDiarization object that run interleaved:
\* either session may be called, subscribed and fed at any time.
InitInter ==
  /\ args \in [duration : 1..2, step : {1}, latency : {None},
               max_speakers : {MaxSpk}, model_duration : {ModelDuration}]
  /\ audio \in {<<<<4, 10>>, <<5, 10>>, <<3, 10>>>>, TurnAudio(MaxClusterLen)}
  /\ plan \in [Sessions -> {o \in TwoOptions : ~o.wave}]
  /\ Start
NextInter ==
  \/ Construct
  \/ \E s \in Sessions : CallFromSource(s)
  \/ \E s \in Sessions : CallFromFile(s)
  \/ \E s \in Sessions : Subscribe(s)
  \/ \E s \in Sessions : Deliver(s)
  \/ \E s \in Sessions : Handle(s)
SpecInter == InitInter /\ [][NextInter]_vars

\* ----------------------------------------------------------- properties
Live(s) == sess[s].pc \in {"running", "done"}
Finished(s) == sess[s].pc = "done"
Ceil(latency, step) ==
  CHOOSE m \in 1..latency : m * step >= latency /\ (m - 1) * step < latency
Pending(sr, to, kind, slot) ==
  Cardinality({i \in 1..Len(sr.c.todo) :
     sr.c.todo[i].to = to /\ sr.c.todo[i].kind = kind /\ sr.c.todo[i].slot = slot})
\* Outputs the aggregation stage of a session has emitted so far.
AggOut(sr, wave) ==
  IF wave
  THEN Len(sr.c.zipC.log) + Len(sr.c.zipC.q[1]) + Pending(sr, "zipC", "next", 1)
  ELSE Len(sr.c.out) + Pending(sr, "final", "next", 0)
Annotations(s) == [i \in 1..Len(sess[s].c.out) |-> sess[s].c.out[i][1]]

\* C2: a configuration exists exactly when step <= latency <= duration holds
\* for the values finally used (latency defaults to step, duration to the
\* duration of the segmentation model); otherwise construction has failed,
\* there is no configuration and no session is ever started.
C2_ConfigValidated ==
  LET dur == IF args.duration = None THEN args.model_duration ELSE args.duration
      lat == IF args.latency = None THEN args.step ELSE args.latency
      valid == args.step <= lat /\ lat <= dur
  IN /\ cfgState = "ok" =>
          /\ valid
          /\ config.step = args.step /\ config.latency = lat /\ config.duration = dur
     /\ cfgState = "failed" =>
          /\ ~valid
          /\ config = NoConfig
          /\ \A s \in Sessions : sess[s] = IdleSession
C2_Witness ==
  /\ cfgState = "failed"
  /\ args.duration = None /\ args.latency # None
  /\ args.step <= args.latency /\ args.latency > args.model_duration

\* C3: before the clustered stream has ended, the aggregation stage has
\* emitted one output per window observed from the ceil(latency / step)-th on,
\* and none before; outputs made from fewer windows exist only after the end
\* of a stream whose end time is known.
C3_NoOutputBeforeFull ==
  \A s \in Sessions : Live(s) =>
    LET n == Ceil(config.latency, config.step)
        seen == sess[s].c.aggSeen
        emitted == AggOut(sess[s], plan[s].wave)
    IN /\ (~sess[s].c.flushed \/ sess[s].end_time = None) =>
            emitted = Max(0, seen - n + 1)
       /\ (emitted > 0 /\ seen < n) => (sess[s].c.flushed /\ sess[s].end_time # None)
C3_Witness ==
  \E s \in Sessions :
    /\ Live(s) /\ ~sess[s].c.flushed
    /\ Ceil(config.latency, config.step) >= 2
    /\ sess[s].c.aggSeen = Ceil(config.latency, config.step)
    /\ AggOut(sess[s], plan[s].wave) = 1

\* C4 (as claimed): when the duration of the audio is known and the audio holds
\* at least one window, a finished session has completed its output stream and
\* its outputs cover every tick from the first region to the stream end time,
\* the largest multiple of step not exceeding the duration.
C4_FlushCoversToEnd ==
  \A s \in Sessions :
    (Finished(s) /\ plan[s].known /\ Len(audio) >= config.duration) =>
      LET n == Ceil(config.latency, config.step)
          w == NumWindows(Len(audio), config.duration, config.step)
          first == (Min(n, w) - 1) * config.step + config.duration - config.latency
          stream_end == Len(audio) - (Len(audio) % config.step)
      IN /\ sess[s].c.completed
         /\ \A t \in first..(stream_end - 1) :
              \E i \in 1..Len(sess[s].c.out) :
                sess[s].c.out[i][1].start <= t /\ t < sess[s].c.out[i][1].end

\* C1 (as claimed): from_file and from_source on the same audio and
\* configuration pass the same stream end time and emit the same annotations.
C1_FileEqualsSource ==
  \A s, t \in Sessions :
    (Finished(s) /\ Finished(t) /\ plan[s].mode = "file" /\ plan[t].mode = "source"
       /\ plan[t].known) =>
      /\ sess[s].end_time = sess[t].end_time
      /\ Annotations(s) = Annotations(t)

\* C5: no clustering object ever holds more than max_speakers centroids.
C5_RegistryBounded ==
  \A i \in 1..Len(heap) : Len(heap[i].centers) <= config.max_speakers
C5_Witness ==
  \E s \in Sessions :
    /\ Finished(s) /\ config.max_speakers = 1
    /\ Len(heap[sess[s].clid].centers) = 1
    /\ \E i, j \in 1..Len(audio) : audio[i] = <<1, 10>> /\ audio[j] = <<3, 10>>

\* The three synchronizers of a session.
Zips(s) == <<sess[s].c.zipA, sess[s].c.zipB, sess[s].c.zipC>>

BufferOk(buf, seen, n) ==
  /\ Len(buf) = Min(seen, n)
  /\ \A i \in 1..Len(buf) : buf[i].start = (seen - Len(buf) + i - 1) * config.step
SlidesByOne(s) ==
  LET n == Ceil(config.latency, config.step)
  IN (Live(s) /\ sess'[s].c.aggSeen = sess[s].c.aggSeen + 1 /\ Len(sess[s].c.bufA) = n) =>
       /\ Tail(sess[s].c.bufA) = SubSeq(sess'[s].c.bufA, 1, n - 1)
       /\ Len(sess'[s].c.bufA) = n
       /\ AggOut(sess'[s], plan[s].wave) = AggOut(sess[s], plan[s].wave) + 1
C7_SlidingBuffer ==
  /\ [](\A s \in Sessions : Live(s) =>
          /\ BufferOk(sess[s].c.bufA, sess[s].c.aggSeen, Ceil(config.latency, config.step))
          /\ BufferOk(sess[s].c.bufW, sess[s].c.wavSeen, Ceil(config.latency, config.step)))
  /\ [][\A s \in Sessions : SlidesByOne(s)]_vars
C7_Witness ==
  \E s \in Sessions :
    /\ Live(s) /\ Ceil(config.latency, config.step) >= 2
    /\ sess[s].c.aggSeen > Ceil(config.latency, config.step)
    /\ Len(sess[s].c.bufA) = Ceil(config.latency, config.step)
    /\ sess[s].c.bufA[1].start > 0

\* C8: two finished sessions on the same pairs and configuration have made
\* the same sequence of global identity assignments.
C8_SameAssignments ==
  \A s, t \in Sessions :
    (Finished(s) /\ Finished(t)) => sess[s].c.clustered = sess[t].c.clustered
C8_Witness ==
  /\ \A s \in Sessions : Finished(s) /\ Len(sess[s].c.clustered) >= 3
  /\ sess[1].clid # sess[2].clid
  /\ Len(heap[sess[1].clid].centers) >= 2
  /\ \E i \in 1..Len(sess[2].c.clustered) :
       \E j \in 1..(i - 1) :
          \E a, b \in 1..NumLocal :
            /\ sess[2].c.clustered[i][a] # 0
            /\ sess[2].c.clustered[i][a] = sess[2].c.clustered[j][b]

\* C9: every output is a pair of an annotation and a waveform; outputs follow
\* each other one step apart; the waveform is None in every output when no
\* audio chunk stream was given, and an audio window of the same region in
\* every output otherwise.
C9_OutputPairs ==
  \A s \in Sessions : Live(s) =>
    \A i \in 1..Len(sess[s].c.out) :
      LET o == sess[s].c.out[i]
      IN /\ Len(o) = 2
         /\ DOMAIN o[1] = {"start", "end", "wins", "active", "intervals"}
         /\ o[1].start < o[1].end
         /\ i > 1 => o[1].start = sess[s].c.out[i - 1][1].start + config.step
         /\ ~plan[s].wave => o[2] = NoWaveform
         /\ plan[s].wave =>
              /\ o[2] # NoWaveform
              /\ o[2].start = o[1].start /\ o[2].end = o[1].end
              /\ Len(o[2].data) = o[1].end - o[1].start
C9_Witness ==
  \E s \in Sessions :
    /\ Finished(s) /\ ~plan[s].wave /\ plan[s].mode = "source"
    /\ Len(sess[s].c.out) >= 2

\* C10: a session whose source has another sample rate than the configuration
\* fails in from_source: nothing of it is built, no clustering object exists
\* for it and it never runs; no other session fails.
C10_SampleRateFailsFast ==
  \A s \in Sessions :
    /\ (plan[s].mode = "source" /\ plan[s].rate # ModelRate) =>
          /\ sess[s] \in {IdleSession, [IdleSession EXCEPT !.pc = "failed"]}
          /\ Len(heap) = Cardinality({t \in Sessions : sess[t].clid # 0})
    /\ sess[s].pc = "failed" => (plan[s].mode = "source" /\ plan[s].rate # ModelRate)
C10_Witness ==
  \E s \in Sessions : sess[s].pc = "failed" /\ cfgState = "ok" /\ heap = <<>>

\* ------------------------------------------- properties of the clustering
\* Session s makes a clustering call in this step.
ClusterStep(s) ==
  /\ Live(s) /\ sess[s].c.todo # <<>>
  /\ Head(sess[s].c.todo).to = "cluster" /\ Head(sess[s].c.todo).kind = "next"
  /\ Len(sess'[s].c.clustered) = Len(sess[s].c.clustered) + 1
\* The registry as slot j of a call finds it: slots 1..j-1 have been decided.
RECURSIVE RegistryBefore(_, _, _, _)
RegistryBefore(cl, seg, emb, j) ==
  IF j = 1 THEN [centers |-> cl.centers, assign |-> <<>>]
  ELSE ClusterSlot(cl, RegistryBefore(cl, seg, emb, j - 1), seg, emb, j - 1)
\* Slot j is active by the configured threshold.
ActiveSlot(seg, j) == \E f \in 1..Len(seg.data) : seg.data[f][j] >= config.tau_active
\* Centroid g of R is the single nearest centroid to e and matches it.
MatchesOnly(e, R, g) ==
  /\ SimAtLeast(e, R[g], config.rho_update)
  /\ \A h \in (1..Len(R)) \ {g} : ~CloserOrEqual(e, R[h], R[g])
\* e matches no centroid of R and is dissimilar to all of them.
Novel(e, R) ==
  \A h \in 1..Len(R) :
    /\ ~SimAtLeast(e, R[h], config.rho_update)
    /\ SimAtMost(e, R[h], 10 - config.delta_new)
\* All ticks of the recording are the same speaker at full level.
ConstantSpeaker ==
  /\ Len(audio) >= 1
  /\ \A t \in 1..Len(audio) : audio[t] = audio[1] /\ audio[1][1] > 0 /\ audio[1][2] >= config.tau_active

\* C11: in every clustering call, an active slot whose embedding matches
\* (cosine >= rho_update) one centroid of the registry, no other centroid
\* being as close, is given that centroid's identity; and a recording of one
\* constant speaker ends with one identity in the registry, every window
\* assigned to it, and every output active for it over its whole region.
C11_MatchKeepsIdentity ==
  /\ [][\A s \in Sessions : ClusterStep(s) =>
          LET m == Head(sess[s].c.todo)
              assign == Last(sess'[s].c.clustered)
          IN \A j \in 1..NumLocal :
               LET R == RegistryBefore(heap[sess[s].clid], m.x[1], m.x[2], j).centers
               IN \A g \in 1..Len(R) :
                    (ActiveSlot(m.x[1], j) /\ MatchesOnly(m.x[2].vecs[j], R, g))
                       => assign[j] = g]_vars
  /\ [](\A s \in Sessions : (Finished(s) /\ ConstantSpeaker) =>
          /\ Len(sess[s].c.clustered) > 0 => Len(heap[sess[s].clid].centers) = 1
          /\ \A i \in 1..Len(sess[s].c.clustered) :
               /\ sess[s].c.clustered[i][1] = 1
               /\ \A j \in 2..NumLocal : sess[s].c.clustered[i][j] = 0
          /\ \A i \in 1..Len(sess[s].c.out) :
               LET ann == sess[s].c.out[i][1]
               IN /\ ann.active[1] = ann.start..(ann.end - 1)
                  /\ \A g \in 2..config.max_speakers : ann.active[g] = {})
C11_Witness ==
  \E s \in Sessions :
    /\ Finished(s) /\ config.duration = 1
    /\ audio = <<<<3, 10>>, <<5, 10>>, <<3, 10>>>>
    /\ Len(sess[s].c.clustered) = 3
    /\ \A i \in 1..3 : sess[s].c.clustered[i][1] = 1
    /\ Len(heap[sess[s].clid].centers) = 1
    /\ Len(sess[s].c.out) >= 1

\* C12: in every clustering call the registry grows by exactly one identity
\* for each active slot that finds fewer than max_speakers identities and an
\* embedding that matches none of them and is dissimilar (cosine <=
\* 1 - delta_new) to all; that slot is given the new identity; no other slot
\* adds one.
C12_NovelCreatesOne ==
  [][\A s \in Sessions : ClusterStep(s) =>
       LET m == Head(sess[s].c.todo)
           assign == Last(sess'[s].c.clustered)
           before(j) == RegistryBefore(heap[sess[s].clid], m.x[1], m.x[2], j).centers
           creates(j) == /\ ActiveSlot(m.x[1], j)
                         /\ Len(before(j)) < config.max_speakers
                         /\ Novel(m.x[2].vecs[j], before(j))
       IN /\ Len(heap'[sess[s].clid].centers) =
               Len(heap[sess[s].clid].centers)
                 + Cardinality({j \in 1..NumLocal : creates(j)})
          /\ \A j \in 1..NumLocal :
               creates(j) =>
                 /\ assign[j] = Len(before(j)) + 1
                 /\ \A k \in 1..(j - 1) : assign[k] # assign[j]]_vars
C12_Witness ==
  \E s \in Sessions :
    /\ Finished(s) /\ config.duration = 1
    /\ \E t \in 2..Len(audio) : audio[1] = <<1, 10>> /\ audio[t] = <<2, 10>>
    /\ Len(heap[sess[s].clid].centers) = 2
    /\ \E i \in 1..Len(sess[s].c.clustered) : sess[s].c.clustered[i][1] = 2

\* C13: a novel active speaker that finds the registry full raises nothing:
\* its slot is given the identity of the nearest centroid, the registry keeps
\* its size, a call in which no slot matches leaves every centroid as it was,
\* and the window goes on to the aggregation stage.
C13_OverflowIsTentative ==
  [][\A s \in Sessions : ClusterStep(s) =>
       LET m == Head(sess[s].c.todo)
           assign == Last(sess'[s].c.clustered)
           pre == heap[sess[s].clid].centers
           post == heap'[sess[s].clid].centers
           before(j) == RegistryBefore(heap[sess[s].clid], m.x[1], m.x[2], j).centers
           overflow(j) == /\ ActiveSlot(m.x[1], j)
                          /\ Len(before(j)) = config.max_speakers
                          /\ Novel(m.x[2].vecs[j], before(j))
       IN /\ \A j \in 1..NumLocal :
               overflow(j) =>
                 /\ assign[j] \in 1..config.max_speakers
                 /\ \A h \in 1..Len(before(j)) :
                      CloserOrEqual(m.x[2].vecs[j], before(j)[assign[j]], before(j)[h])
                 /\ Len(post) = config.max_speakers
          /\ (\A j \in 1..NumLocal : ActiveSlot(m.x[1], j) => overflow(j)) => post = pre
          /\ Len(sess'[s].c.todo) >= 1
          /\ Head(sess'[s].c.todo).to = "agg" /\ Head(sess'[s].c.todo).kind = "next"
          /\ Head(sess'[s].c.todo).x.assign = assign]_vars
C13_Witness ==
  \E s \in Sessions :
    /\ Finished(s) /\ config.max_speakers = 1 /\ config.duration = 1
    /\ Len(audio) = 2 /\ audio[1] = <<1, 10>> /\ audio[2] = <<3, 10>>
    /\ sess[s].c.clustered = <<<<1, 0>>, <<1, 0>>>>
    /\ heap[sess[s].clid].centers = <<<<5, 0>>>>

\* ---------------------------------------------- properties of the outputs
\* Session s handles a call of the aggregation stage in this step.
AggStep(s) ==
  /\ Live(s) /\ sess[s].c.todo # <<>>
  /\ Head(sess[s].c.todo).to = "agg"
  /\ sess'[s].c.todo # Tail(sess[s].c.todo)
\* The aggregated windows that step makes, and the annotations it passes on.
AggWindows(s) ==
  IF Head(sess[s].c.todo).kind = "done"
  THEN Flush(sess[s].agg, sess[s].c.bufA, config.max_speakers)
  ELSE IF Len(sess'[s].c.bufA) = sess[s].agg.num_overlapping_windows
  THEN <<Aggregate(sess[s].agg, sess'[s].c.bufA, RegionStart(sess[s].agg, sess'[s].c.bufA),
                   RegionStart(sess[s].agg, sess'[s].c.bufA) + config.step,
                   config.max_speakers)>>
  ELSE <<>>
AggAnnotations(s) ==
  LET made == SubSeq(sess'[s].c.todo, 1, Len(sess'[s].c.todo) - Len(sess[s].c.todo) + 1)
      anns == SelectSeq(made, LAMBDA m : m.kind = "next")
  IN [i \in 1..Len(anns) |-> IF plan[s].wave THEN anns[i].x ELSE anns[i].x[1]]
\* The intervals q cover exactly the ticks of [a, b) at which v is at or
\* above tau, each maximal run of such ticks being one interval.
ExactIntervals(q, v, a, b, tau) ==
  /\ \A i \in 1..Len(q) :
       /\ a <= q[i][1] /\ q[i][1] < q[i][2] /\ q[i][2] <= b
       /\ \A t \in q[i][1]..(q[i][2] - 1) : v[t - a + 1] >= tau
       /\ i > 1 => q[i - 1][2] < q[i][1]
  /\ \A t \in a..(b - 1) :
       v[t - a + 1] >= tau => \E i \in 1..Len(q) : q[i][1] <= t /\ t < q[i][2]

\* C14: for every aggregated window and every global speaker the intervals of
\* the annotation made from it hold exactly the ticks whose activation is at
\* least the configured tau_active, one interval per maximal run of such
\* ticks; the clustering object works with the same tau_active.
C14_BinarizeExact ==
  /\ [][\A s \in Sessions : AggStep(s) =>
          LET ws == AggWindows(s)
              anns == AggAnnotations(s)
          IN /\ Len(anns) = Len(ws)
             /\ \A i \in 1..Len(ws) :
                  /\ anns[i].start = ws[i].start /\ anns[i].end = ws[i].end
                  /\ \A sp \in 1..config.max_speakers :
                       ExactIntervals(anns[i].intervals[sp],
                                      [k \in 1..Len(ws[i].data) |-> ws[i].data[k][sp]],
                                      ws[i].start, ws[i].end, config.tau_active)]_vars
  /\ [](\A s \in Sessions : Live(s) => heap[sess[s].clid].tau_active = config.tau_active)
C14_Witness ==
  \E s \in Sessions :
    /\ Finished(s) /\ config.step = 2 /\ audio = FadeAudio(MaxAudio)
    /\ \E i \in 1..Len(sess[s].c.out) :
         LET ann == sess[s].c.out[i][1]
         IN /\ ann.end = ann.start + 2
            /\ Len(ann.intervals[1]) = 1
            /\ ann.intervals[1][1][2] = ann.intervals[1][1][1] + 1

\* C15: the clustering object of a pipeline is empty when the pipeline is
\* built; it has been called once for each pair the synchronizer has emitted,
\* the k-th call on the window that starts at (k - 1) * step; only a
\* clustering call of its own pipeline changes it, and a call never removes
\* an identity or an earlier assignment.
C15_OncePerWindowInOrder ==
  /\ [](\A s \in Sessions :
          /\ sess[s].pc = "built" =>
               /\ heap[sess[s].clid].centers = <<>>
               /\ heap[sess[s].clid].calls = 0
          /\ Live(s) =>
               /\ heap[sess[s].clid].calls = Len(sess[s].c.clustered)
               /\ Len(sess[s].c.zipA.log) =
                    heap[sess[s].clid].calls + Pending(sess[s], "cluster", "next", 0)
               /\ \A i \in 1..Len(sess[s].c.zipA.log) :
                    sess[s].c.zipA.log[i] = <<(i - 1) * config.step, (i - 1) * config.step>>)
  /\ [][\A s \in Sessions : Live(s) =>
          LET pre == heap[sess[s].clid]
              post == heap'[sess[s].clid]
          IN IF ClusterStep(s)
             THEN /\ Head(sess[s].c.todo).x[1].start = pre.calls * config.step
                  /\ Head(sess[s].c.todo).x[2].start = pre.calls * config.step
                  /\ post.calls = pre.calls + 1
                  /\ Len(post.centers) >= Len(pre.centers)
                  /\ SubSeq(sess'[s].c.clustered, 1, Len(sess[s].c.clustered))
                       = sess[s].c.clustered
             ELSE /\ post = pre
                  /\ sess'[s].c.clustered = sess[s].c.clustered]_vars
C15_Witness ==
  /\ Finished(1) /\ sess[2].pc = "built"
  /\ heap[sess[1].clid].calls >= 3 /\ Len(heap[sess[1].clid].centers) >= 2
  /\ sess[2].clid # sess[1].clid /\ heap[sess[2].clid].centers = <<>>

\* ------------------------------------------- properties of from_source
\* w is the window of the recording that starts at w.start, a multiple of step.
IsRegularWindow(w) ==
  /\ w.start % config.step = 0
  /\ Len(w.data) = config.duration
  /\ w = WindowAt(audio, w.start, config.duration)
\* The audio windows session s holds: queued at the embedding zip, buffered
\* by the waveform branch, or in a call on its way to one of them.
AudioWindowsHeld(s) ==
  {sess[s].c.zipB.q[1][i] : i \in 1..Len(sess[s].c.zipB.q[1])}
  \cup {sess[s].c.bufW[i] : i \in 1..Len(sess[s].c.bufW)}
  \cup {sess[s].c.todo[i].x : i \in {k \in 1..Len(sess[s].c.todo) :
          /\ sess[s].c.todo[k].kind = "next"
          /\ \/ sess[s].c.todo[k].to = "wav"
             \/ sess[s].c.todo[k].to = "zipB" /\ sess[s].c.todo[k].slot = 1}}
\* The segmentations session s holds, queued or on their way to a zip.
SegmentationsHeld(s) ==
  {sess[s].c.zipA.q[1][i] : i \in 1..Len(sess[s].c.zipA.q[1])}
  \cup {sess[s].c.zipB.q[2][i] : i \in 1..Len(sess[s].c.zipB.q[2])}
  \cup {sess[s].c.todo[i].x : i \in {k \in 1..Len(sess[s].c.todo) :
          /\ sess[s].c.todo[k].kind = "next"
          /\ \/ sess[s].c.todo[k].to = "zipA" /\ sess[s].c.todo[k].slot = 1
             \/ sess[s].c.todo[k].to = "zipB" /\ sess[s].c.todo[k].slot = 2}}

\* C16: in from_source, a regular source is never regularized: no regularizer
\* receives a call or changes state, and every branch gets the windows of the
\* source as they are; a source that is not regular is regularized on every
\* subscription: each regularizer has received a prefix of the recording and
\* has emitted every complete window of it; in both cases the windows the
\* branches get are the duration-long windows of the recording, step apart.
C16_RegularPassthrough ==
  \A s \in Sessions : (Live(s) /\ plan[s].mode = "source") =>
    /\ plan[s].regular =>
         /\ sess[s].c.reg = NewCtx.reg
         /\ Pending(sess[s], "reg", "next", 1) + Pending(sess[s], "reg", "next", 2)
              + Pending(sess[s], "reg", "next", 3) + Pending(sess[s], "reg", "next", 4) = 0
    /\ ~plan[s].regular =>
         \A i \in 1..NumSubs(s) :
           /\ Len(sess[s].c.reg[i].acc) <= Len(audio)
           /\ sess[s].c.reg[i].acc = SubSeq(audio, 1, Len(sess[s].c.reg[i].acc))
           /\ sess[s].c.reg[i].next =
                NumWindows(Len(sess[s].c.reg[i].acc), config.duration, config.step)
    /\ \A w \in AudioWindowsHeld(s) : IsRegularWindow(w)
    /\ \A g \in SegmentationsHeld(s) :
         g = Segmentation(WindowAt(audio, g.start, config.duration))
C16_Witness ==
  \E s \in Sessions :
    /\ Live(s) /\ plan[s].mode = "source" /\ plan[s].regular /\ plan[s].wave
    /\ config.duration > config.step
    /\ Len(sess[s].c.bufW) >= 2 /\ Len(sess[s].c.out) >= 1
    /\ Len(sess[s].c.zipB.log) >= 2

\* ------------------------------------ properties of interleaved sessions
\* C17: two sessions of the same object that run interleaved have each their
\* own clustering object; a step of one session changes neither the other
\* session (its buffers, queues and outputs) nor the other's clustering
\* object; and two finished sessions called the same way have made the same
\* assignments and outputs, however their steps were interleaved (one after
\* the other included, where the first ran alone).
C17_SessionsIndependent ==
  /\ [](\A s, t \in Sessions :
          /\ (s # t /\ sess[s].clid # 0 /\ sess[t].clid # 0) => sess[s].clid # sess[t].clid
          /\ (Finished(s) /\ Finished(t) /\ plan[s] = plan[t]) =>
               /\ sess[s].c.out = sess[t].c.out
               /\ sess[s].c.clustered = sess[t].c.clustered
               /\ heap[sess[s].clid].centers = heap[sess[t].clid].centers)
  /\ [][\A s, t \in Sessions :
          (s # t /\ sess'[s] # sess[s]) =>
             /\ sess'[t] = sess[t]
             /\ sess[t].clid # 0 => heap'[sess[t].clid] = heap[sess[t].clid]]_vars
C17_Witness ==
  /\ sess[1].pc = "running" /\ sess[2].pc = "running"
  /\ Len(sess[1].c.clustered) >= 1
  /\ Len(sess[2].c.clustered) > Len(sess[1].c.clustered)
  /\ Len(sess[2].c.bufA) >= 1 /\ Len(sess[1].c.bufA) >= 1
  /\ heap[sess[1].clid].centers # heap[sess[2].clid].centers

\* The pairs on their way to the clustering stage of session s.
ClusterCalls(s) ==
  {sess[s].c.todo[i].x : i \in {k \in 1..Len(sess[s].c.todo) :
      sess[s].c.todo[k].to = "cluster" /\ sess[s].c.todo[k].kind = "next"}}

\* C18: in from_source, every pair that reaches the clustering stage holds
\* the segmentation of one regular window of the recording and the normalized
\* embedding of that same window, computed with the overlapped speech weights
\* of that window's segmentation; every clustered window kept by the
\* aggregation stage came from such a pair.
C18_PairFromSameWindow ==
  \A s \in Sessions : (Live(s) /\ plan[s].mode = "source") =>
    /\ \A x \in ClusterCalls(s) :
         LET w == WindowAt(audio, x[1].start, config.duration)
         IN /\ x[1].start % config.step = 0
            /\ x[1] = Segmentation(w)
            /\ x[2].start = x[1].start
            /\ x[2].wstart = x[1].start
            /\ x[2] = EmbeddingNormalization(
                        Embedding(w, OverlappedSpeechPenalty(Segmentation(w))))
    /\ \A i \in 1..Len(sess[s].c.bufA) :
         sess[s].c.bufA[i].estart = sess[s].c.bufA[i].start
    /\ \A i \in 1..Len(sess[s].c.zipB.log) :
         sess[s].c.zipB.log[i] = <<(i - 1) * config.step, (i - 1) * config.step>>
C18_Witness ==
  \E s \in Sessions :
    /\ Live(s) /\ plan[s].mode = "source" /\ ~plan[s].regular /\ plan[s].wave
    /\ \E x \in ClusterCalls(s) : x[1].start >= 2 * config.step
    /\ Len(sess[s].c.zipB.log) >= 3

\* C19: with an audio chunk stream, every output joins an annotation and a
\* waveform made from the same buffered windows (consecutive, at most
\* num_overlapping_windows of them; before the end-of-stream flush the k-th
\* output is made from the windows k - 1 .. k + n - 2) for the same region; the waveform is the audio of the earliest
\* buffered window where it covers the region; and when the session is over
\* neither branch has left an element unpaired.
C19_AnnotationMatchesWaveform ==
  \A s \in Sessions : (Live(s) /\ plan[s].wave) =>
    LET n == Ceil(config.latency, config.step)
    IN /\ \A i \in 1..Len(sess[s].c.out) :
            LET ann == sess[s].c.out[i][1]
                wav == sess[s].c.out[i][2]
            IN /\ ann.wins = wav.wins
               /\ ann.start = wav.start /\ ann.end = wav.end
               /\ Len(ann.wins) \in 1..n
               /\ \A j \in 2..Len(ann.wins) : ann.wins[j] = ann.wins[j - 1] + config.step
               /\ i <= sess[s].c.aggSeen - n + 1 =>
                    (Len(ann.wins) = n /\ ann.wins[1] = (i - 1) * config.step)
               /\ \A t \in wav.start..(wav.end - 1) :
                    (wav.wins[1] <= t /\ t < wav.wins[1] + config.duration)
                       => wav.data[t - wav.start + 1] = audio[t + 1]
       /\ sess[s].agg.num_overlapping_windows = sess[s].sel.num_overlapping_windows
       /\ sess[s].agg.stream_end = sess[s].sel.stream_end
       /\ Finished(s) =>
            /\ sess[s].c.zipC.q = <<<<>>, <<>>>>
            /\ sess[s].c.aggSeen = sess[s].c.wavSeen
            /\ Len(sess[s].c.out) = Len(sess[s].c.zipC.log)
C19_Witness ==
  \E s \in Sessions :
    /\ Finished(s) /\ plan[s].wave /\ plan[s].mode = "source"
    /\ Ceil(config.latency, config.step) >= 2
    /\ Len(sess[s].c.out) >= 3
    /\ Len(sess[s].c.out[1][1].wins) = Ceil(config.latency, config.step)
    /\ Len(Last(sess[s].c.out)[1].wins) < Ceil(config.latency, config.step)
====
